---- MODULE Spec2Model ----
(***************************************************************************)
(* rusty_dom: the keyed tree reconciler of src/src/main.rs.                *)
(*                                                                         *)
(* Element::diff is a pure recursive function over two Element snapshots.  *)
(* The state machine draws the two snapshots from bounded sets of          *)
(* well-formed Elements (built the way the el! macro builds them) and      *)
(* applies diff in one step.  Indices are kept 0-based as in the source;   *)
(* a slice access that Rust would abort on is recorded as Panic.           *)
(***************************************************************************)
EXTENDS Integers, Sequences, FiniteSets, TLC

VARIABLES previous, next, result, pc

vars == <<previous, next, result, pc>>

-----------------------------------------------------------------------------
(* Bounds of the model *)

\* local key payloads are 0..MaxLocalId
MaxLocalId == 1

\* a Parent has at most MaxChildren children
MaxChildren == 2

-----------------------------------------------------------------------------
(* Option<T> and the abort of an out-of-bounds slice access *)

None == [some |-> FALSE]

Some(v) == [some |-> TRUE, val |-> v]

Panic == [some |-> FALSE, panic |-> TRUE]

-----------------------------------------------------------------------------
(* Key *)

Local(n) == [variant |-> "Local", id |-> n]

Global(n) == [variant |-> "Global", id |-> n]

\* the derived Ord of Key: variants in declaration order, then the payload
KeyRank(k) == IF k.variant = "Local" THEN 0 ELSE 1

KeyLess(a, b) ==
    \/ KeyRank(a) < KeyRank(b)
    \/ KeyRank(a) = KeyRank(b) /\ a.id < b.id

-----------------------------------------------------------------------------
(* Element *)

Text(key, value) == [variant |-> "Text", key |-> key, value |-> value]

Void(key, name, attributes) ==
    [variant |-> "Void", key |-> key, name |-> name, attributes |-> attributes]

Parent(key, name, keymap, attributes, children) ==
    [variant |-> "Parent", key |-> key, name |-> name, keymap |-> keymap,
     attributes |-> attributes, children |-> children]

to_key(e) == e.key

\* BTreeMap::insert of (k, v) into map m: a later insert of the same key wins
MapInsert(m, k, v) ==
    [x \in (DOMAIN m) \cup {k} |-> IF x = k THEN v ELSE m[x]]

EmptyMap == [x \in {} |-> 0]

\* a variant of the el! macro that counts the index before the insert
RECURSIVE ElKeymapOneBased(_, _, _)
ElKeymapOneBased(children, index, keymap) ==
    IF index >= Len(children) THEN keymap
    ELSE ElKeymapOneBased(children, index + 1,
                          MapInsert(keymap, to_key(children[index + 1]), index + 1))

\* the el! macro, Parent arm: push each child, insert its key at index, index += 1
RECURSIVE ElKeymap(_, _, _)
ElKeymap(children, index, keymap) ==
    IF index >= Len(children) THEN keymap
    ELSE ElKeymap(children, index + 1,
                  MapInsert(keymap, to_key(children[index + 1]), index))

ElParent(key, name, children) ==
    Parent(key, name, ElKeymap(children, 0, EmptyMap), None, children)

\* the el! macro, Void arm
ElVoid(key, name) == Void(key, name, None)

\* Element::clone: a deep copy, field by field
RECURSIVE Clone(_)
Clone(e) ==
    CASE e.variant = "Text" -> Text(e.key, e.value)
      [] e.variant = "Void" -> Void(e.key, e.name, e.attributes)
      [] e.variant = "Parent" ->
            Parent(e.key, e.name, e.keymap, e.attributes,
                   [i \in DOMAIN e.children |-> Clone(e.children[i])])

-----------------------------------------------------------------------------
(* Change and DiffTree *)

RemoveChild(key) == [op |-> "RemoveChild", key |-> key]

InsertChild(element) == [op |-> "InsertChild", element |-> element]

SortChildren(keys) == [op |-> "SortChildren", keys |-> keys]

UpdateText(value) == [op |-> "UpdateText", value |-> value]

ReplaceNode(element) == [op |-> "ReplaceNode", element |-> element]

DiffTree(changes, children) == [changes |-> changes, children |-> children]

-----------------------------------------------------------------------------
(* Element::diff *)

\* a variant of the iteration that visits the keys in descending order
RECURSIVE IterDescending(_)
IterDescending(S) ==
    IF S = {} THEN <<>>
    ELSE LET m == CHOOSE k \in S : \A j \in S : j = k \/ KeyLess(j, k)
         IN  <<m>> \o IterDescending(S \ {m})

\* BTreeMap::iter: the keys of a map in ascending Key order
RECURSIVE Iter(_)
Iter(S) ==
    IF S = {} THEN <<>>
    ELSE LET m == CHOOSE k \in S : \A j \in S : j = k \/ KeyLess(k, j)
         IN  <<m>> \o Iter(S \ {m})

\* slice indexing xs[i] with a usize index: in bounds iff i < xs.len()
InBounds(xs, i) == i < Len(xs)

At(xs, i) == xs[i + 1]

\* right_children.iter().map(|x| x.to_key()).collect()
ChildKeys(children) == [i \in DOMAIN children |-> to_key(children[i])]

RECURSIVE diff(_, _)
RECURSIVE LeftLoop(_, _, _, _)

\* for (&key, &value) in left_keymap.iter() { ... }
LeftLoop(self, other, keys, acc) ==
    IF keys = <<>> \/ acc.panicked THEN acc
    ELSE
      LET key == Head(keys)
          value == self.keymap[key]
      IN  IF key \in DOMAIN other.keymap
          THEN
            LET value_ == other.keymap[key]
                order == acc.order \/ (value # value_)
            IN  IF ~InBounds(self.children, value) \/ ~InBounds(other.children, value_)
                THEN [acc EXCEPT !.panicked = TRUE]
                ELSE
                  LET child_tree == diff(At(self.children, value), At(other.children, value_))
                  IN  IF child_tree = Panic
                      THEN [acc EXCEPT !.panicked = TRUE]
                      ELSE IF child_tree.some
                      THEN LeftLoop(self, other, Tail(keys),
                             [acc EXCEPT !.order = order,
                                         !.child_changes = Append(@, <<key, child_tree.val>>)])
                      ELSE LeftLoop(self, other, Tail(keys), [acc EXCEPT !.order = order])
          ELSE LeftLoop(self, other, Tail(keys),
                        [acc EXCEPT !.changes = Append(@, RemoveChild(key))])

\* a variant of the second loop that inserts without looking the key up in
\* left_keymap
RECURSIVE RightLoopInsertAll(_, _, _, _)
RightLoopInsertAll(self, other, keys, acc) ==
    IF keys = <<>> \/ acc.panicked THEN acc
    ELSE
      LET key == Head(keys)
          value == other.keymap[key]
      IN  IF ~InBounds(other.children, value)
          THEN [acc EXCEPT !.panicked = TRUE]
          ELSE RightLoopInsertAll(self, other, Tail(keys),
                 [acc EXCEPT !.order = @ \/ (key \in DOMAIN self.keymap
                                               /\ value # self.keymap[key]),
                             !.changes =
                                 Append(@, InsertChild(Clone(At(other.children, value))))])

\* for (key, &value) in right_keymap.iter() { ... }
RECURSIVE RightLoop(_, _, _, _)
RightLoop(self, other, keys, acc) ==
    IF keys = <<>> \/ acc.panicked THEN acc
    ELSE
      LET key == Head(keys)
          value == other.keymap[key]
      IN  IF key \in DOMAIN self.keymap
          THEN RightLoop(self, other, Tail(keys),
                         [acc EXCEPT !.order = @ \/ (value # self.keymap[key])])
          ELSE IF ~InBounds(other.children, value)
          THEN [acc EXCEPT !.panicked = TRUE]
          ELSE RightLoop(self, other, Tail(keys),
                         [acc EXCEPT !.changes =
                             Append(@, InsertChild(Clone(At(other.children, value))))])

\* a variant of the sort step that takes the keys from right_keymap, in key
\* order, instead of from right_children
SortStepKeymapOrder(other, acc) ==
    IF acc.order /\ ~acc.panicked
    THEN [acc EXCEPT !.changes = Append(@, SortChildren(Iter(DOMAIN other.keymap)))]
    ELSE acc

\* if order { changes.push(SortChildren(keys of right_children)) }
SortStep(other, acc) ==
    IF acc.order /\ ~acc.panicked
    THEN [acc EXCEPT !.changes = Append(@, SortChildren(ChildKeys(other.children)))]
    ELSE acc

\* the construction of the Parent/Parent result
ParentResult(acc) ==
    IF acc.panicked THEN Panic
    ELSE IF Len(acc.child_changes) = 0
    THEN Some(DiffTree(Some(acc.changes), None))
    ELSE Some(DiffTree(Some(acc.changes), Some(acc.child_changes)))

\* the Parent/Parent arm with equal names
DiffParents(self, other) ==
    LET acc0 == [changes |-> <<>>, child_changes |-> <<>>, order |-> FALSE,
                 panicked |-> FALSE]
        acc1 == LeftLoop(self, other, Iter(DOMAIN self.keymap), acc0)
        acc2 == RightLoop(self, other, Iter(DOMAIN other.keymap), acc1)
    IN  ParentResult(SortStep(other, acc2))

\* a variant of diff whose Void/Void arm also compares the attributes
diffComparingAttributes(self, other) ==
    IF self.variant = "Text" /\ other.variant = "Text"
    THEN IF self.value # other.value
         THEN Some(DiffTree(Some(<<UpdateText(other.value)>>), None))
         ELSE None
    ELSE IF self.variant = "Void" /\ other.variant = "Void"
    THEN IF self.name = other.name /\ self.attributes = other.attributes
         THEN None
         ELSE Some(DiffTree(Some(<<ReplaceNode(Clone(other))>>), None))
    ELSE IF self.variant = "Parent" /\ other.variant = "Parent" /\ self.name = other.name
    THEN DiffParents(self, other)
    ELSE Some(DiffTree(Some(<<ReplaceNode(Clone(other))>>), None))

diff(self, other) ==
    IF self.variant = "Text" /\ other.variant = "Text"
    THEN IF self.value # other.value
         THEN Some(DiffTree(Some(<<UpdateText(other.value)>>), None))
         ELSE None
    ELSE IF self.variant = "Void" /\ other.variant = "Void"
    THEN IF self.name = other.name
         THEN None
         ELSE Some(DiffTree(Some(<<ReplaceNode(Clone(other))>>), None))
    ELSE IF self.variant = "Parent" /\ other.variant = "Parent" /\ self.name = other.name
    THEN DiffParents(self, other)
    ELSE Some(DiffTree(Some(<<ReplaceNode(Clone(other))>>), None))

\* depth of the recursion of diff: one call, plus the deepest call made for a
\* key of both keymaps
RECURSIVE CallDepth(_, _)
CallDepth(self, other) ==
    IF self.variant = "Parent" /\ other.variant = "Parent" /\ self.name = other.name
    THEN LET calls == {k \in (DOMAIN self.keymap) \cap (DOMAIN other.keymap) :
                          /\ InBounds(self.children, self.keymap[k])
                          /\ InBounds(other.children, other.keymap[k])}
             ds == {CallDepth(At(self.children, self.keymap[k]),
                              At(other.children, other.keymap[k])) : k \in calls}
         IN  1 + (IF ds = {} THEN 0 ELSE CHOOSE d \in ds : \A g \in ds : g <= d)
    ELSE 1

-----------------------------------------------------------------------------
(* Well-formed Elements, bounded *)

Keys == {Local(n) : n \in 0..MaxLocalId} \cup {Global(0)}

Names == {"div", "span"}

Values == {"a", "b"}

AttributeMaps == {None, Some([class |-> "x"])}

TextsOf(key) == {Text(key, v) : v \in Values}

VoidsOf(key) == {Void(key, n, a) : n \in Names, a \in AttributeMaps}

\* sequences of at most MaxChildren pairwise distinct keys
KeySeqs ==
    UNION {{ks \in [1..n -> Keys] : \A i, j \in 1..n : i # j => ks[i] # ks[j]}
           : n \in 0..MaxChildren}

\* the leaf children a Parent of the model holds under a key
LeafChildrenOf(key) == {ElVoid(key, "div"), ElVoid(key, "span")}

LeafChildren == UNION {LeafChildrenOf(k) : k \in Keys}

\* child sequences along a key sequence, each child drawn from pool
ChildSeqs(ks, pool) ==
    {cs \in [DOMAIN ks -> pool] : \A i \in DOMAIN ks : to_key(cs[i]) = ks[i]}

FlatParentsOf(key, names) ==
    {ElParent(key, n, cs) : n \in names,
                            cs \in UNION {ChildSeqs(ks, LeafChildren) : ks \in KeySeqs}}

Leaves == UNION {TextsOf(k) \cup VoidsOf(k) : k \in Keys}

Elements == Leaves \cup FlatParentsOf(Local(0), Names)

\* Parents two levels deep: the children of the root are a Void or one of three
\* Parents over the grandchild keys Local(0) and Global(0)
NestedChildrenOf(key) ==
    {ElVoid(key, "div"),
     ElParent(key, "div", <<ElVoid(Local(0), "div"), ElVoid(Global(0), "div")>>),
     ElParent(key, "div", <<ElVoid(Local(0), "div"), ElVoid(Global(0), "span")>>),
     ElParent(key, "div", <<ElVoid(Global(0), "div"), ElVoid(Local(0), "div")>>)}

NestedKeys == {Local(0), Local(1), Global(0)}

NestedChildren == UNION {NestedChildrenOf(k) : k \in NestedKeys}

NestedKeySeqs ==
    UNION {{ks \in [1..n -> NestedKeys] : \A i, j \in 1..n : i # j => ks[i] # ks[j]}
           : n \in 0..MaxChildren}

NestedParents ==
    {ElParent(Local(0), "div", cs) :
        cs \in UNION {ChildSeqs(ks, NestedChildren) : ks \in NestedKeySeqs}}

NestedElements == NestedParents \cup {Text(Local(0), "a"), ElVoid(Local(0), "div")}

\* every keymap maps exactly each direct child's key to its index, at every depth
RECURSIVE WellFormed(_)
WellFormed(e) ==
    e.variant = "Parent" =>
        /\ DOMAIN e.keymap = {to_key(e.children[i]) : i \in DOMAIN e.children}
        /\ \A i \in DOMAIN e.children :
              /\ e.keymap[to_key(e.children[i])] = i - 1
              /\ WellFormed(e.children[i])

-----------------------------------------------------------------------------
(* The state machine *)

Init ==
    /\ previous \in Elements
    /\ next \in Elements
    /\ result = None
    /\ pc = "start"

\* let diff = previous.diff(&next);
DoDiff ==
    /\ pc = "start"
    /\ result' = diff(previous, next)
    /\ pc' = "done"
    /\ UNCHANGED <<previous, next>>

Next == DoDiff

Spec == Init /\ [][Next]_vars

InitNested ==
    /\ previous \in NestedElements
    /\ next \in NestedElements
    /\ result = None
    /\ pc = "start"

SpecNested == InitNested /\ [][Next]_vars

-----------------------------------------------------------------------------
(* Vocabulary of the properties *)

Done == pc = "done"

SameTagParents ==
    /\ previous.variant = "Parent"
    /\ next.variant = "Parent"
    /\ previous.name = next.name

\* the local change list of the result (empty when there is none)
LocalChanges ==
    IF result.some /\ result.val.changes.some THEN result.val.changes.val ELSE <<>>

\* the nested diffs of the result (empty when there are none)
NestedDiffs ==
    IF result.some /\ result.val.children.some THEN result.val.children.val ELSE <<>>

KeysOf(e) == {to_key(e.children[i]) : i \in DOMAIN e.children}

\* position of the child with key k in the child sequence of e
PosOf(e, k) == CHOOSE i \in DOMAIN e.children : to_key(e.children[i]) = k

ChildOf(e, k) == e.children[PosOf(e, k)]

OfOp(changes, op) == SelectSeq(changes, LAMBDA c : c.op = op)

Range(s) == {s[i] : i \in DOMAIN s}

\* some key of both child sets sits at different indices in previous and next
Moved ==
    \E k \in KeysOf(previous) \cap KeysOf(next) : PosOf(previous, k) # PosOf(next, k)

IsPrefix(s, t) == Len(s) <= Len(t) /\ \A i \in DOMAIN s : s[i] = t[i]

-----------------------------------------------------------------------------
(* C1 *)

\* C1: diff(T, T) is None for every well-formed Element T
C1_SelfDiffAbsent == (Done /\ previous = next) => result = None

-----------------------------------------------------------------------------
(* C2 *)

\* a DiffTree without empty containers and with at least one side present,
\* at the top level and at every nested level
RECURSIVE NoEmptySide(_)
NoEmptySide(t) ==
    /\ t.changes.some \/ t.children.some
    /\ t.changes.some => Len(t.changes.val) > 0
    /\ t.children.some =>
          /\ Len(t.children.val) > 0
          /\ \A i \in DOMAIN t.children.val : NoEmptySide(t.children.val[i][2])

\* C2: diff never returns a DiffTree with both sides empty or absent, and an
\* empty side is always None, never an empty container, at every level
C2_NoEmptyDiffTree == (Done /\ result.some) => NoEmptySide(result.val)

-----------------------------------------------------------------------------
(* C3 *)

RemovedKeys == KeysOf(previous) \ KeysOf(next)

Removals == OfOp(LocalChanges, "RemoveChild")

\* exactly one RemoveChild per removed key and none for any other key
ExactRemovals ==
    /\ Len(Removals) = Cardinality(RemovedKeys)
    /\ {Removals[i].key : i \in DOMAIN Removals} = RemovedKeys

\* removing only trailing children yields no other change
TrailingOnly ==
    IsPrefix(ChildKeys(next.children), ChildKeys(previous.children))
        => LocalChanges = Removals

\* C3 as stated: the RemoveChild changes follow the order of previous's children
C3_RemovalsInChildOrder ==
    (Done /\ SameTagParents) =>
        /\ ExactRemovals
        /\ \A i, j \in DOMAIN Removals :
              i < j => PosOf(previous, Removals[i].key) < PosOf(previous, Removals[j].key)
        /\ TrailingOnly

\* C3 amended: exactly one RemoveChild per removed key, in ascending Key order
\* (the iteration order of previous's keymap), and removing only trailing
\* children yields no other change
C3_RemovalsInKeyOrder ==
    (Done /\ SameTagParents) =>
        /\ ExactRemovals
        /\ \A i, j \in DOMAIN Removals :
              i < j => KeyLess(Removals[i].key, Removals[j].key)
        /\ TrailingOnly

\* two children removed whose order in previous is not ascending by key
C3_Witness ==
    /\ Done /\ SameTagParents
    /\ Len(Removals) = 2
    /\ PosOf(previous, Removals[1].key) > PosOf(previous, Removals[2].key)

-----------------------------------------------------------------------------
(* C4 *)

Sorts == OfOp(LocalChanges, "SortChildren")

\* C4: one SortChildren exactly when a retained key changed index, never more
\* than one, last in the list, carrying next's child keys in next's order; with
\* equal key sets in a different order it is the only local change
C4_ReorderDetection ==
    (Done /\ SameTagParents) =>
        /\ Len(Sorts) <= 1
        /\ Len(Sorts) = 1 <=> Moved
        /\ Len(Sorts) = 1 =>
              LocalChanges[Len(LocalChanges)] = SortChildren(ChildKeys(next.children))
        /\ (/\ KeysOf(previous) = KeysOf(next)
            /\ ChildKeys(previous.children) # ChildKeys(next.children))
              => LocalChanges = <<SortChildren(ChildKeys(next.children))>>

\* the same key set in a different order: the single SortChildren
C4_Witness ==
    /\ Done /\ SameTagParents
    /\ KeysOf(previous) = KeysOf(next)
    /\ ChildKeys(previous.children) # ChildKeys(next.children)
    /\ LocalChanges = <<SortChildren(ChildKeys(next.children))>>

-----------------------------------------------------------------------------
(* C6 *)

InsertedKeys == KeysOf(next) \ KeysOf(previous)

Insertions == OfOp(LocalChanges, "InsertChild")

\* C6: exactly one InsertChild per key new in next, carrying that child of next,
\* none for a key of previous; every InsertChild after every RemoveChild; when a
\* retained child's index shifts, one SortChildren of next's keys ends the list
C6_Insertion ==
    (Done /\ SameTagParents) =>
        /\ Len(Insertions) = Cardinality(InsertedKeys)
        /\ {Insertions[i].element : i \in DOMAIN Insertions}
              = {ChildOf(next, k) : k \in InsertedKeys}
        /\ \A i, j \in DOMAIN LocalChanges :
              (LocalChanges[i].op = "InsertChild" /\ LocalChanges[j].op = "RemoveChild")
                  => j < i
        /\ Moved =>
              LocalChanges = Removals \o Insertions
                                \o <<SortChildren(ChildKeys(next.children))>>

\* a child inserted before a retained child: InsertChild then SortChildren
C6_Witness ==
    /\ Done /\ SameTagParents
    /\ Len(previous.children) >= 1
    /\ Len(next.children) = Len(previous.children) + 1
    /\ Tail(ChildKeys(next.children)) = ChildKeys(previous.children)
    /\ Len(LocalChanges) = 2
    /\ LocalChanges[1] = InsertChild(next.children[1])
    /\ LocalChanges[2] = SortChildren(ChildKeys(next.children))

-----------------------------------------------------------------------------
(* C8 *)

\* different variants, or two Voids or two Parents with different tag names
Mismatched ==
    \/ previous.variant # next.variant
    \/ previous.variant \in {"Void", "Parent"} /\ previous.name # next.name

ReplaceResult == Some(DiffTree(Some(<<ReplaceNode(next)>>), None))

\* C8: the result is one ReplaceNode carrying next, with no nested diffs,
\* exactly for a mismatched pair; two Voids with equal names yield no diff; a
\* same-variant same-tag pair never gets a ReplaceNode
C8_ReplaceDispatch ==
    Done =>
        /\ result = ReplaceResult <=> Mismatched
        /\ (previous.variant = "Void" /\ next.variant = "Void"
               /\ previous.name = next.name) => result = None
        /\ ~Mismatched => OfOp(LocalChanges, "ReplaceNode") = <<>>

\* two Voids of one tag name with different keys and attributes: no diff
C8_Witness ==
    /\ Done
    /\ previous.variant = "Void" /\ next.variant = "Void"
    /\ previous.name = next.name
    /\ previous.attributes # next.attributes
    /\ previous.key # next.key
    /\ result = None

-----------------------------------------------------------------------------
(* C9 *)

\* nesting height of an Element
RECURSIVE Height(_)
Height(e) ==
    IF e.variant = "Parent"
    THEN LET hs == {Height(e.children[i]) : i \in DOMAIN e.children}
         IN  1 + (IF hs = {} THEN 0 ELSE CHOOSE h \in hs : \A g \in hs : g <= h)
    ELSE 1

\* C9: diff of two well-formed Elements completes with a result (no slice
\* access is out of bounds at any depth), its recursion is no deeper than
\* either input tree, and it leaves both inputs as they were
C9_Totality ==
    [][pc' = "done" =>
          /\ result' # Panic
          /\ CallDepth(previous, next) <= Height(previous)
          /\ CallDepth(previous, next) <= Height(next)
          /\ previous' = previous
          /\ next' = next]_vars

\* a diff that recursed through Parents to the grandchildren, with a child of
\* the root at different indices in previous and next
C9_Witness ==
    /\ Done /\ SameTagParents
    /\ WellFormed(previous) /\ WellFormed(next)
    /\ result.some
    /\ Moved
    /\ CallDepth(previous, next) = 3

-----------------------------------------------------------------------------
(* C5 *)

LastChild(e) == e.children[Len(e.children)]

\* next is previous with one child of a new key added at the end
AppendedOne ==
    /\ SameTagParents
    /\ Len(next.children) = Len(previous.children) + 1
    /\ SubSeq(next.children, 1, Len(previous.children)) = previous.children
    /\ to_key(LastChild(next)) \notin KeysOf(previous)

\* C5: appending one child C to a copy of P gives exactly one InsertChild
\* carrying C, and no nested diffs
C5_Append ==
    (Done /\ AppendedOne) =>
        result = Some(DiffTree(Some(<<InsertChild(LastChild(next))>>), None))

-----------------------------------------------------------------------------
(* C7 *)

\* the variant or the tag name changed
ReplacePair(l, r) ==
    \/ l.variant # r.variant
    \/ l.variant \in {"Void", "Parent"} /\ l.name # r.name

\* same-tag Parents with the same child key sequence whose only difference is
\* one descendant that changed variant or tag name
RECURSIVE OneDescendantDiffers(_, _)
OneDescendantDiffers(l, r) ==
    /\ l.variant = "Parent" /\ r.variant = "Parent" /\ l.name = r.name
    /\ ChildKeys(l.children) = ChildKeys(r.children)
    /\ \E i \in DOMAIN l.children :
          /\ \A j \in DOMAIN l.children : (l.children[j] # r.children[j]) <=> (j = i)
          /\ \/ ReplacePair(l.children[i], r.children[i])
             \/ OneDescendantDiffers(l.children[i], r.children[i])

\* the DiffTree the claim describes: absent local changes and one nested
\* entry per level, ending in one ReplaceNode
RECURSIVE PathTree(_, _)
PathTree(l, r) ==
    LET i == CHOOSE x \in DOMAIN l.children : l.children[x] # r.children[x]
        below == IF ReplacePair(l.children[i], r.children[i])
                 THEN DiffTree(Some(<<ReplaceNode(r.children[i])>>), None)
                 ELSE PathTree(l.children[i], r.children[i])
    IN  DiffTree(None, Some(<< <<to_key(l.children[i]), below>> >>))

\* C7: when one descendant alone differs, every level down to its parent has
\* absent local changes and exactly one nested entry, ending in a ReplaceNode
C7_NestedPropagation ==
    (Done /\ OneDescendantDiffers(previous, next)) =>
        result = Some(PathTree(previous, next))

-----------------------------------------------------------------------------
(* C10 *)

\* previous's child keys after the removals, the appended insertions and, if
\* there is one, the reordering to the SortChildren key list
ReplayKeys ==
    LET removed == {Removals[i].key : i \in DOMAIN Removals}
        kept == SelectSeq(ChildKeys(previous.children), LAMBDA k : k \notin removed)
        settled == kept \o [i \in DOMAIN Insertions |-> to_key(Insertions[i].element)]
    IN  IF Sorts = <<>> THEN settled
        ELSE SelectSeq(Sorts[1].keys, LAMBDA k : k \in Range(settled))

\* C10: replaying the local changes on previous's child keys gives next's
\* child keys in next's order
C10_ReplayRoundTrip ==
    (Done /\ SameTagParents) => ReplayKeys = ChildKeys(next.children)

====
